---- MODULE Spec2Model ----
(***************************************************************************)
(* The note aggregate of personal_assistant/services/utils/notes/record.py *)
(* over the notes table (id primary key, note UNIQUE, tags JSON text).     *)
(*                                                                         *)
(* Strings are sequences of one-character strings, so that json.dumps and  *)
(* str.join are computed and not assumed.  An optional integer is <<>>     *)
(* (None) or <<n>>.                                                        *)
(***************************************************************************)
EXTENDS Integers, Sequences, FiniteSets

VARIABLES
    table,      \* the rows of the notes table: [id, note, tags]
    seq,        \* largest id the table has ever assigned (sqlite_sequence)
    autoinc,    \* whether the id column is declared AUTOINCREMENT
    live,       \* the Record objects whose constructor has returned
    text,       \* text[o]: self.text, a Text wrapper or a raw str
    tags,       \* tags[o]: self.tags, the values of the Tag wrappers
    note_id,    \* note_id[o]: self.note_id
    saved,      \* saved[o]: the constructor of o ran __save
    removed,    \* removed[o]: remove_record has been called on o
    last        \* the last call: operation, receiver, arguments, outcome

vars == <<table, seq, autoinc, live, text, tags, note_id, saved, removed, last>>

----------------------------------------------------------------------------
(* Bounds of the model. *)

MaxTags == 2

\* The Record objects of a run.  A call involves one Record and the table, and
\* Records affect each other through rows only: two handles give every
\* pairing (a duplicate text, a shared note_id, a reused id).
Objs == {"r1", "r2"}
NoObj == "none"

----------------------------------------------------------------------------
(* Values. *)

None == <<>>
Some(n) == <<n>>

EmptyStr == <<>>
Hi == <<"h", "i">>
Yo == <<"y", "o">>
TagX == <<"x">>
TagQuote == <<"q", "\"">>
EnDash == "U+2013"

TextArgs == {EmptyStr, Hi, Yo}
TagListArgs == {<<>>, <<TagX>>, <<TagX, TagQuote>>, <<EmptyStr>>}
NoteIdArgs == {None, Some(0), Some(1)}

\* Text(text) / Tag(tag): construction fails on invalid content.
IsValidText(s) == Len(s) > 0
IsValidTag(s) == Len(s) > 0
AllValidTags(l) == \A i \in 1..Len(l) : IsValidTag(l[i])

\* Text(...) wraps, .value reads back; replace_text stores the raw str.
WrapText(s) == [wrapped |-> TRUE, value |-> s]
RawStr(s) == [wrapped |-> FALSE, value |-> s]

\* Python truthiness of an Optional[int]: None and 0 are falsy.
Falsy(nid) == nid = None \/ nid = Some(0)

----------------------------------------------------------------------------
(* str.join, json.dumps and the f-string of format_record. *)

RECURSIVE Join(_, _)
Join(sep, l) ==
    IF Len(l) = 0 THEN <<>>
    ELSE IF Len(l) = 1 THEN l[1]
    ELSE l[1] \o sep \o Join(sep, Tail(l))

RECURSIVE JsonEscape(_)
JsonEscape(s) ==
    IF Len(s) = 0 THEN <<>>
    ELSE (IF s[1] = "\"" THEN <<"\\", "\"">>
          ELSE IF s[1] = "\\" THEN <<"\\", "\\">>
          ELSE <<s[1]>>) \o JsonEscape(Tail(s))

JsonString(s) == <<"\"">> \o JsonEscape(s) \o <<"\"">>

JsonDumps(l) ==
    <<"[">> \o Join(<<",", " ">>, [i \in 1..Len(l) |-> JsonString(l[i])]) \o <<"]">>

FormatString(tg, note) ==
    <<"T", "a", "g", "s", ":", " ">>
    \o (IF Len(tg) > 0 THEN Join(<<",", " ">>, tg) ELSE <<EnDash>>)
    \o <<"\n", "\t", "N", "o", "t", "e", ":", " ">> \o note \o <<"\n">>

----------------------------------------------------------------------------
(* The notes table. *)

Ids(tbl) == {r.id : r \in tbl}
Max(S) == CHOOSE m \in S : \A n \in S : n <= m
RowsWithId(tbl, nid) == {r \in tbl : nid = Some(r.id)}

\* The id an insert is assigned.  The table's declaration decides between the
\* rowid rule (one more than the largest id in the table, so the id of a
\* deleted last row is assigned again) and the AUTOINCREMENT rule (one more
\* than the largest id ever assigned); autoinc stands for either declaration.
NewId == IF autoinc THEN seq + 1
         ELSE IF table = {} THEN 1 ELSE Max(Ids(table)) + 1

\* UNIQUE constraint failed: notes.note
UniqueNoteFails(tbl) == \E r1, r2 \in tbl : r1 # r2 /\ r1.note = r2.note

----------------------------------------------------------------------------
(* Calls and their outcomes. *)

Call(op, o, t, tg, nid, exc, ret) ==
    [op |-> op, o |-> o, text |-> t, tags |-> tg, id |-> nid, exc |-> exc, ret |-> ret]

NoReturn == <<>>

Init ==
    /\ table = {}
    /\ seq = 0
    /\ autoinc \in BOOLEAN
    /\ live = {}
    /\ text = [o \in Objs |-> WrapText(EmptyStr)]
    /\ tags = [o \in Objs |-> <<>>]
    /\ note_id = [o \in Objs |-> None]
    /\ saved = [o \in Objs |-> FALSE]
    /\ removed = [o \in Objs |-> FALSE]
    /\ last = Call("none", NoObj, EmptyStr, <<>>, None, "None", NoReturn)

----------------------------------------------------------------------------
(* Exceptions. *)

NoError == "None"
ValidationError == "ValidationError"
DuplicateNoteError ==
    "ValueError: A note with this text already exists.To change an existing note, use the <change-note> command."
IntegrityError == "IntegrityError: UNIQUE constraint failed: notes.note"
AttributeError == "AttributeError: 'str' object has no attribute 'value'"

----------------------------------------------------------------------------
(* Faulty variants of the operations, one slip each: every claim below that *)
(* holds of the operations is violated under one of them.                  *)

\* __save that never takes the new row's id.
Record_save_KeepsNoId(o, t, tg, nid) ==
    LET record == [id |-> NewId, note |-> t, tags |-> JsonDumps(tg)]
        merged == table \cup {record}
    IN  IF UniqueNoteFails(merged)
           THEN /\ last' = Call("init", o, t, tg, nid, DuplicateNoteError, NoReturn)
                /\ UNCHANGED <<table, seq, live, text, tags, note_id, saved, removed>>
           ELSE /\ table' = merged
                /\ seq' = IF autoinc THEN NewId ELSE seq
                /\ live' = live \cup {o}
                /\ text' = [text EXCEPT ![o] = WrapText(t)]
                /\ tags' = [tags EXCEPT ![o] = tg]
                /\ note_id' = [note_id EXCEPT ![o] = None]
                /\ saved' = [saved EXCEPT ![o] = TRUE]
                /\ last' = Call("init", o, t, tg, nid, NoError, NoReturn)
                /\ UNCHANGED removed

\* __save that prints the UNIQUE violation like any other integrity error.
Record_save_Lenient(o, t, tg, nid) ==
    LET record == [id |-> NewId, note |-> t, tags |-> JsonDumps(tg)]
        merged == table \cup {record}
        failed == UniqueNoteFails(merged)
    IN  /\ table' = IF failed THEN table ELSE merged
        /\ seq' = IF autoinc /\ ~failed THEN NewId ELSE seq
        /\ live' = live \cup {o}
        /\ text' = [text EXCEPT ![o] = WrapText(t)]
        /\ tags' = [tags EXCEPT ![o] = tg]
        /\ note_id' = [note_id EXCEPT ![o] = IF failed THEN None ELSE Some(record.id)]
        /\ saved' = [saved EXCEPT ![o] = TRUE]
        /\ last' = Call("init", o, t, tg, nid, NoError, NoReturn)
        /\ UNCHANGED removed

\* replace_text whose update is applied whatever the UNIQUE constraint says.
replace_text_Unchecked(o, new_text) ==
    /\ o \in live
    /\ text' = [text EXCEPT ![o] = RawStr(new_text)]
    /\ table' = {IF note_id[o] = Some(r.id) THEN [r EXCEPT !.note = new_text] ELSE r
                 : r \in table}
    /\ last' = Call("replace_text", o, new_text, <<>>, None, NoError, NoReturn)
    /\ UNCHANGED <<seq, autoinc, live, tags, note_id, saved, removed>>

\* replace_text whose update has no where clause.
replace_text_NoWhere(o, new_text) ==
    LET updated == {[r EXCEPT !.note = new_text] : r \in table}
    IN  /\ o \in live
        /\ text' = [text EXCEPT ![o] = RawStr(new_text)]
        /\ IF UniqueNoteFails(updated)
           THEN /\ table' = table
                /\ last' = Call("replace_text", o, new_text, <<>>, None, IntegrityError, NoReturn)
           ELSE /\ table' = updated
                /\ last' = Call("replace_text", o, new_text, <<>>, None, NoError, NoReturn)
        /\ UNCHANGED <<seq, autoinc, live, tags, note_id, saved, removed>>

\* add_tags that assigns the new tags instead of extending.
add_tags_Replaces(o, new_tags) ==
    LET extended == new_tags
        str_tags == JsonDumps(extended)
    IN  /\ o \in live
        /\ Len(tags[o] \o new_tags) <= MaxTags
        /\ IF ~AllValidTags(new_tags)
           THEN /\ last' = Call("add_tags", o, EmptyStr, new_tags, None, ValidationError, NoReturn)
                /\ UNCHANGED <<table, tags>>
           ELSE /\ tags' = [tags EXCEPT ![o] = extended]
                /\ table' = {IF note_id[o] = Some(r.id) THEN [r EXCEPT !.tags = str_tags] ELSE r
                             : r \in table}
                /\ last' = Call("add_tags", o, EmptyStr, new_tags, None, NoError, NoReturn)
        /\ UNCHANGED <<seq, autoinc, live, text, note_id, saved, removed>>

\* remove_record whose delete has no where clause.
remove_record_NoWhere(o) ==
    /\ o \in live
    /\ table' = {}
    /\ removed' = [removed EXCEPT ![o] = TRUE]
    /\ last' = Call("remove_record", o, EmptyStr, <<>>, None, NoError, NoReturn)
    /\ UNCHANGED <<seq, autoinc, live, text, tags, note_id, saved>>

----------------------------------------------------------------------------
(* Record.__save: insert the row, commit, take the row's id.  The id is      *)
(* auto-assigned and the note is a validated Text, so the one integrity     *)
(* error a commit can raise here is the UNIQUE violation on notes.note; the *)
(* branch that prints any other integrity error is never taken.             *)

Record_save(o, t, tg, nid) ==
    LET record == [id |-> NewId, note |-> t, tags |-> JsonDumps(tg)]
        merged == table \cup {record}
    IN  IF UniqueNoteFails(merged)
           THEN /\ last' = Call("init", o, t, tg, nid, DuplicateNoteError, NoReturn)
                /\ UNCHANGED <<table, seq, live, text, tags, note_id, saved, removed>>
           ELSE /\ table' = merged
                /\ seq' = IF autoinc THEN NewId ELSE seq
                /\ live' = live \cup {o}
                /\ text' = [text EXCEPT ![o] = WrapText(t)]
                /\ tags' = [tags EXCEPT ![o] = tg]
                /\ note_id' = [note_id EXCEPT ![o] = Some(record.id)]
                /\ saved' = [saved EXCEPT ![o] = TRUE]
                /\ last' = Call("init", o, t, tg, nid, NoError, NoReturn)
                /\ UNCHANGED removed

(* Record.__init__ *)
Record_init(o, t, tg, nid) ==
    /\ o \notin live
    /\ UNCHANGED autoinc
    /\ IF ~IsValidText(t) \/ ~AllValidTags(tg)
       THEN /\ last' = Call("init", o, t, tg, nid, ValidationError, NoReturn)
            /\ UNCHANGED <<table, seq, live, text, tags, note_id, saved, removed>>
       ELSE IF Falsy(nid)
       THEN Record_save(o, t, tg, nid)
       ELSE /\ live' = live \cup {o}
            /\ text' = [text EXCEPT ![o] = WrapText(t)]
            /\ tags' = [tags EXCEPT ![o] = tg]
            /\ note_id' = [note_id EXCEPT ![o] = nid]
            /\ last' = Call("init", o, t, tg, nid, NoError, NoReturn)
            /\ UNCHANGED <<table, seq, saved, removed>>

(* Record.replace_text *)
replace_text(o, new_text) ==
    LET updated == {IF note_id[o] = Some(r.id) THEN [r EXCEPT !.note = new_text] ELSE r
                    : r \in table}
    IN  /\ o \in live
        /\ text' = [text EXCEPT ![o] = RawStr(new_text)]
        /\ IF UniqueNoteFails(updated)
           THEN /\ table' = table
                /\ last' = Call("replace_text", o, new_text, <<>>, None, IntegrityError, NoReturn)
           ELSE /\ table' = updated
                /\ last' = Call("replace_text", o, new_text, <<>>, None, NoError, NoReturn)
        /\ UNCHANGED <<seq, autoinc, live, tags, note_id, saved, removed>>

(* Record.add_tags *)
add_tags(o, new_tags) ==
    LET extended == tags[o] \o new_tags
        str_tags == JsonDumps(extended)
    IN  /\ o \in live
        /\ Len(extended) <= MaxTags
        /\ IF ~AllValidTags(new_tags)
           THEN /\ last' = Call("add_tags", o, EmptyStr, new_tags, None, ValidationError, NoReturn)
                /\ UNCHANGED <<table, tags>>
           ELSE /\ tags' = [tags EXCEPT ![o] = extended]
                /\ table' = {IF note_id[o] = Some(r.id) THEN [r EXCEPT !.tags = str_tags] ELSE r
                             : r \in table}
                /\ last' = Call("add_tags", o, EmptyStr, new_tags, None, NoError, NoReturn)
        /\ UNCHANGED <<seq, autoinc, live, text, note_id, saved, removed>>

(* Record.remove_record *)
remove_record(o) ==
    /\ o \in live
    /\ table' = {r \in table : note_id[o] # Some(r.id)}
    /\ removed' = [removed EXCEPT ![o] = TRUE]
    /\ last' = Call("remove_record", o, EmptyStr, <<>>, None, NoError, NoReturn)
    /\ UNCHANGED <<seq, autoinc, live, text, tags, note_id, saved>>

(* Record.format_record *)
format_record(o) ==
    /\ o \in live
    /\ IF text[o].wrapped
       THEN last' = Call("format_record", o, EmptyStr, <<>>, None, NoError,
                         FormatString(tags[o], text[o].value))
       ELSE last' = Call("format_record", o, EmptyStr, <<>>, None, AttributeError, NoReturn)
    /\ UNCHANGED <<table, seq, autoinc, live, text, tags, note_id, saved, removed>>

Next ==
    \E o \in Objs :
        \/ \E t \in TextArgs, tg \in TagListArgs, nid \in NoteIdArgs : Record_init(o, t, tg, nid)
        \/ \E new_text \in TextArgs : replace_text(o, new_text)
        \/ \E new_tags \in TagListArgs : add_tags(o, new_tags)
        \/ remove_record(o)
        \/ format_record(o)

Spec == Init /\ [][Next]_vars

----------------------------------------------------------------------------
(* Reading a stored row. *)

\* json.loads of a tags column: the list of strings a JSON array text denotes.
RECURSIVE JsonItems(_, _, _, _, _)
JsonItems(s, i, inStr, cur, acc) ==
    IF i > Len(s) THEN acc
    ELSE IF inStr
    THEN IF s[i] = "\\" THEN JsonItems(s, i + 2, TRUE, cur \o <<s[i + 1]>>, acc)
         ELSE IF s[i] = "\"" THEN JsonItems(s, i + 1, FALSE, <<>>, acc \o <<cur>>)
         ELSE JsonItems(s, i + 1, TRUE, cur \o <<s[i]>>, acc)
    ELSE IF s[i] = "\"" THEN JsonItems(s, i + 1, TRUE, <<>>, acc)
         ELSE JsonItems(s, i + 1, FALSE, cur, acc)

JsonLoads(s) == JsonItems(s, 1, FALSE, <<>>, <<>>)

NoteTaken(tbl, t) == \E r \in tbl : r.note = t
ValidArgs(c) == IsValidText(c.text) /\ AllValidTags(c.tags)

----------------------------------------------------------------------------
(* Claims. *)

\* C1: constructing a Record without an identifier, with valid text that is
\* the note of no stored row, adds exactly one row whose note is the text and
\* whose tags column decodes to the given tag list in order, leaves every
\* other row unchanged, and sets note_id to the non-null id of the new row.
C1_InsertAddsOneRow ==
    [][(/\ last'.op = "init"
        /\ last'.id = None
        /\ ValidArgs(last')
        /\ ~NoteTaken(table, last'.text))
       => (/\ last'.exc = NoError
           /\ last'.o \in live'
           /\ \E r \in table' :
                /\ r \notin table
                /\ r.id \notin Ids(table)
                /\ table' = table \cup {r}
                /\ r.note = last'.text
                /\ JsonLoads(r.tags) = last'.tags
                /\ note_id'[last'.o] = Some(r.id)
                /\ note_id'[last'.o] # None)]_vars

C1_Witness ==
    /\ last.op = "init"
    /\ last.id = None
    /\ last.exc = NoError
    /\ last.tags = <<TagX, TagQuote>>
    /\ Cardinality(table) = 2
    /\ \E r \in table : note_id[last.o] = Some(r.id) /\ r.note = last.text

\* C2: constructing a Record without an identifier whose text is the note of
\* a stored row fails with the duplicate-note error and leaves the table as
\* it was.
C2_DuplicateInsertFails ==
    [][(/\ last'.op = "init"
        /\ last'.id = None
        /\ ValidArgs(last')
        /\ NoteTaken(table, last'.text))
       => (/\ last'.exc = DuplicateNoteError
           /\ table' = table)]_vars

C2_Witness ==
    /\ last.op = "init"
    /\ last.id = None
    /\ last.exc = DuplicateNoteError
    /\ NoteTaken(table, last.text)
    /\ last.o \notin live

\* C3: in every reachable state no two rows have the same note, and each
\* Record constructed without an identifier is backed by at most one row.
C3_UniqueNotes ==
    /\ \A r1, r2 \in table : r1.note = r2.note => r1 = r2
    /\ \A o \in live : saved[o] => Cardinality(RowsWithId(table, note_id[o])) <= 1

C3_Witness ==
    /\ last.op = "replace_text"
    /\ last.exc = IntegrityError
    /\ Cardinality(table) = 2
    /\ \A o \in Objs : o \in live /\ saved[o] /\ RowsWithId(table, note_id[o]) # {}

NoteReplaced(o, new_text) ==
    /\ \A r \in RowsWithId(table, note_id[o]) :
          [r EXCEPT !.note = new_text] \in table'
    /\ \A r \in table : note_id[o] # Some(r.id) => r \in table'
    /\ Cardinality(table') = Cardinality(table)
    /\ tags' = tags
    /\ note_id' = note_id

\* C5 as stated: replace_text on a persisted Record sets the note column of
\* its row to new_text and changes nothing else.
C5_ReplaceTextAlwaysUpdates ==
    [][(/\ last'.op = "replace_text"
        /\ RowsWithId(table, note_id[last'.o]) # {})
       => NoteReplaced(last'.o, last'.text)]_vars

\* C5 amended: replace_text on a Record whose row exists, with new_text the
\* note of no other row, sets the note column of that row to new_text and
\* changes nothing else; with new_text the note of another row the store
\* rejects the update (IntegrityError) and no row changes.
C5_ReplaceTextUpdatesUnlessTaken ==
    [][(/\ last'.op = "replace_text"
        /\ RowsWithId(table, note_id[last'.o]) # {})
       => IF \E r \in table : note_id[last'.o] # Some(r.id) /\ r.note = last'.text
          THEN /\ last'.exc = IntegrityError
               /\ table' = table
               /\ tags' = tags
               /\ note_id' = note_id
          ELSE /\ last'.exc = NoError
               /\ NoteReplaced(last'.o, last'.text)]_vars

C5_Witness ==
    /\ last.op = "replace_text"
    /\ last.exc = NoError
    /\ Cardinality(table) = 2
    /\ \E r \in RowsWithId(table, note_id[last.o]) :
          /\ r.note = last.text
          /\ r.note = EmptyStr
          /\ JsonLoads(r.tags) = <<TagX, TagQuote>>

\* C6: after remove_record no row with the Record's note_id exists, every
\* other row is unchanged, and the Record's text, tags and note_id are as
\* before the call.
C6_RemoveDeletesOwnRow ==
    [][(last'.op = "remove_record")
       => (/\ last'.exc = NoError
           /\ RowsWithId(table', note_id'[last'.o]) = {}
           /\ table' = table \ RowsWithId(table, note_id[last'.o])
           /\ text' = text
           /\ tags' = tags
           /\ note_id' = note_id)]_vars

C6_Witness ==
    /\ last.op = "remove_record"
    /\ saved[last.o]
    /\ note_id[last.o] = Some(1)
    /\ RowsWithId(table, note_id[last.o]) = {}
    /\ Cardinality(table) = 1

\* C7: once remove_record has been called on a Record, every later
\* replace_text, add_tags (with valid tags) or remove_record on it changes no
\* row and raises no error, whatever other Records did in between.
C7_RemovedHandleIsInert ==
    [][(/\ last'.op \in {"replace_text", "add_tags", "remove_record"}
        /\ last'.o \in live
        /\ removed[last'.o]
        /\ AllValidTags(last'.tags))
       => (table' = table /\ last'.exc = NoError)]_vars

\* C8: format_record returns the formatted string of the Record's tags and
\* current note text, without raising, after any replace_text and add_tags.
C8_FormatRecordReturns ==
    last.op = "format_record"
    => /\ last.exc = NoError
       /\ last.ret = FormatString(tags[last.o], text[last.o].value)

\* C9: constructing a Record with a supplied integer note_id (0 included)
\* leaves the table unchanged and sets note_id to the supplied value.
C9_SuppliedIdNeverSaves ==
    [][(/\ last'.op = "init"
        /\ last'.id # None
        /\ ValidArgs(last'))
       => (/\ table' = table
           /\ last'.o \in live'
           /\ note_id'[last'.o] = last'.id)]_vars

\* C10: after every replace_text on a Record constructed without an
\* identifier and not removed, a failing call included, the in-memory text
\* equals the note column of its row.
C10_TextMatchesRow ==
    (/\ last.op = "replace_text"
     /\ saved[last.o]
     /\ ~removed[last.o])
    => \A r \in RowsWithId(table, note_id[last.o]) : r.note = text[last.o].value

====
